---- MODULE Spec2Model ----
(***************************************************************************)
(* Model of the synchronisation engine of the BulletJournal backend:       *)
(* backend/app/api/sync.py (upsert_task .. upsert_calendar_note,           *)
(* sync_data, download_data), with the request schemas of                  *)
(* backend/app/schemas and the tables of backend/app/models.               *)
(* The rewards of an upsert go through backend/app/services/               *)
(* leveling_service.py (gain_xp, calculate_level_from_xp).                  *)
(*                                                                         *)
(* A request is processed record by record; every upsert commits on its   *)
(* own, so one upsert is one step of the model.                            *)
(***************************************************************************)
EXTENDS Integers, Sequences, FiniteSets, TLC

VARIABLES store, now, req, downloaded, calls, txn, users

vars == <<store, now, req, downloaded, calls, txn, users>>

----------------------------------------------------------------------------
(* Bounds of the model *)

MaxId == 1
MaxClock == 2
MaxBatch == 2
MaxCalls == 2
MaxIgnored == 1
MaxXp == 3100

----------------------------------------------------------------------------
(* Identities, entity kinds, identifiers *)

Users == {"A", "B"}

KindOrder == <<"task", "expense", "journal", "goal", "calendar_note", "reflection">>

Kinds == {KindOrder[i] : i \in 1..Len(KindOrder)}

Ids == 1..MaxId

MaxItems == 1000

----------------------------------------------------------------------------
(* Client timestamps.  The request schemas declare updatedAt as a datetime, *)
(* so the handler receives a parsed value: none, an instant with a zone, or *)
(* an instant without one (a naive datetime).                               *)

NoStamp == [t |-> 0, tz |-> "none"]

ClientTimes == 1..MaxClock

ClientStamps == {NoStamp} \cup [t : ClientTimes, tz : {"utc"}] \cup {[t |-> 1, tz |-> "naive"]}

UpdatedAtRequired(k) == k \in {"goal", "calendar_note"}

----------------------------------------------------------------------------
(* Field names: what schema.dict() yields, what the tables have *)

SchemaFields(k) ==
    CASE k = "task" ->
           {"id", "userId", "date", "title", "status", "created_at", "createdAt",
            "updatedAt", "deletedAt", "spentTime", "timeLogs", "accumulatedTime",
            "accumulated_time", "timerRunning", "timer_running", "timerStart",
            "timer_start", "estimatedTime", "estimated_time", "isUseful", "is_useful"}
      [] k = "expense" ->
           {"id", "userId", "date", "title", "amount", "type", "createdAt",
            "created_at", "updatedAt", "deletedAt"}
      [] k = "journal" ->
           {"id", "userId", "date", "tasks", "expenses", "sleep_id", "mood_id",
            "createdAt", "created_at", "updatedAt", "deletedAt", "sleepId", "moodId"}
      [] k = "goal" ->
           {"title", "description", "type", "year", "quarter", "month", "week",
            "targetValue", "currentValue", "unit", "linkedTaskIds", "status",
            "progressType", "id", "userId", "createdAt", "updatedAt", "completedAt"}
      [] k = "calendar_note" ->
           {"date", "note", "id", "userId", "createdAt", "updatedAt"}
      [] k = "reflection" ->
           {"id", "date", "notes", "water_intake", "study_minutes", "userId",
            "createdAt", "created_at", "updatedAt", "deletedAt"}

ModelColumns(k) ==
    CASE k = "task" ->
           {"id", "userId", "date", "title", "status", "created_at", "updatedAt",
            "deletedAt", "spentTime", "timeLogs", "accumulated_time",
            "timer_running", "timer_start", "estimated_time", "is_useful"}
      [] k = "expense" ->
           {"id", "userId", "date", "title", "amount", "created_at", "updatedAt",
            "deletedAt"}
      [] k = "journal" ->
           {"id", "userId", "date", "tasks", "expenses", "sleep_id", "mood_id",
            "created_at", "updatedAt", "deletedAt"}
      [] k = "goal" ->
           {"id", "userId", "title", "description", "type", "year", "quarter",
            "month", "week", "targetValue", "currentValue", "unit",
            "linkedTaskIds", "status", "progressType", "createdAt", "updatedAt",
            "completedAt"}
      [] k = "calendar_note" ->
           {"id", "userId", "date", "note", "createdAt", "updatedAt"}
      [] k = "reflection" ->
           {"id", "userId", "date", "notes", "water_intake", "study_minutes",
            "created_at", "updatedAt", "deletedAt"}

(* frontend name -> table name, applied by each upsert to a copy of the record *)
FieldMapping(k, f) ==
    CASE k = "task" /\ f = "createdAt" -> "created_at"
      [] k = "task" /\ f = "timerRunning" -> "timer_running"
      [] k = "task" /\ f = "timerStart" -> "timer_start"
      [] k = "task" /\ f = "estimatedTime" -> "estimated_time"
      [] k = "task" /\ f = "isUseful" -> "is_useful"
      [] k = "task" /\ f = "accumulatedTime" -> "accumulated_time"
      [] k = "task" /\ f = "isCopiedToNextDay" -> "is_copied_to_next_day"
      [] k = "expense" /\ f = "createdAt" -> "created_at"
      [] k = "journal" /\ f = "sleepId" -> "sleep_id"
      [] k = "journal" /\ f = "moodId" -> "mood_id"
      [] k = "journal" /\ f = "createdAt" -> "created_at"
      [] k = "reflection" /\ f = "createdAt" -> "created_at"
      [] OTHER -> f

MappedKeys(k) == {FieldMapping(k, f) : f \in SchemaFields(k)}

(* the keys of the dict the update loop iterates: upsert_reflection iterates *)
(* the unmapped reflection_data, the others their mapped copy                *)
UpdateLoopKeys(k) == IF k = "reflection" THEN SchemaFields(k) ELSE MappedKeys(k)

(* keys the update loop never writes *)
ProtectedKeys(k) == IF k = "reflection" THEN {"id"} ELSE {"id", "userId"}

(* for key, value in data.items(): if hasattr(existing, key) and key not protected *)
CopiedKeys(k) == (UpdateLoopKeys(k) \cap ModelColumns(k)) \ ProtectedKeys(k)

\* the declarative constructor raises TypeError on a keyword that is no attribute of the class
ConstructorAccepts(k) == MappedKeys(k) \subseteq ModelColumns(k)

(* the column that stands for the kind's payload in the model *)
PayloadColumn(k) ==
    CASE k = "task" -> "title"
      [] k = "expense" -> "title"
      [] k = "journal" -> "tasks"
      [] k = "goal" -> "title"
      [] k = "calendar_note" -> "note"
      [] k = "reflection" -> "notes"

----------------------------------------------------------------------------
(* Records on the wire and rows in the tables *)

\* the kinds whose records and rows carry deletedAt, the soft-delete mark
HasDeletedAt(k) == "deletedAt" \in SchemaFields(k) \cap ModelColumns(k)

\* two payloads per kind: p, and q, which is marked deleted where the kind has
\* deletedAt (0 stands for None); a task is todo in p and done in q
Payloads(k) ==
    {[title |-> "p", status |-> IF k = "task" THEN "todo" ELSE "active", deletedAt |-> 0],
     [title |-> "q", status |-> IF k = "task" THEN "done" ELSE "active",
      deletedAt |-> IF HasDeletedAt(k) THEN 1 ELSE 0]}

StampsOf(k) == IF UpdatedAtRequired(k) THEN ClientStamps \ {NoStamp} ELSE ClientStamps

\* a schema-valid record of kind k: id and userId are required strings
Records(k) == [id : Ids, userId : Users, data : Payloads(k), updatedAt : StampsOf(k)]

Items == UNION {[kind : {k}, rec : Records(k)] : k \in Kinds}

KindIndex(k) == CHOOSE i \in 1..Len(KindOrder) : KindOrder[i] = k

\* a visit of each list from its last record to its first
FlattenReversed(b) ==
    LET F[i \in 0..Len(KindOrder)] ==
          IF i = 0 THEN <<>>
          ELSE F[i - 1] \o [j \in 1..Len(b[KindOrder[i]]) |->
                              [kind |-> KindOrder[i],
                               rec |-> b[KindOrder[i]][Len(b[KindOrder[i]]) + 1 - j]]]
    IN F[Len(KindOrder)]

\* the records of a batch in the order the six loops of sync_data visit them
Flatten(b) ==
    LET F[i \in 0..Len(KindOrder)] ==
          IF i = 0 THEN <<>>
          ELSE F[i - 1] \o [j \in 1..Len(b[KindOrder[i]]) |->
                              [kind |-> KindOrder[i], rec |-> b[KindOrder[i]][j]]]
    IN F[Len(KindOrder)]

\* the SyncData body whose lists, read kind by kind, give the items of s
BatchOf(s) ==
    [k \in Kinds |->
       LET mine == SelectSeq(s, LAMBDA it : it.kind = k)
       IN [j \in 1..Len(mine) |-> mine[j].rec]]

InLoopOrder(s) ==
    \A i \in 1..Len(s) - 1 : KindIndex(s[i].kind) <= KindIndex(s[i + 1].kind)

BatchesUpTo(m) ==
    {BatchOf(s) : s \in {t \in UNION {[1..n -> Items] : n \in 0..m} : InLoopOrder(t)}}

\* one record per request
SingleBatches == BatchesUpTo(1)

SeedCaller == "B"

\* the first request of SpecBatch: one record with a zoned updatedAt of 1
SeedBatches ==
    {BatchOf(<<it>>) : it \in {x \in Items : x.rec.updatedAt = [t |-> 1, tz |-> "utc"]}}

\* requests of up to MaxBatch records with a zoned or no updatedAt
Batches ==
    {b \in BatchesUpTo(MaxBatch) :
       \A k \in Kinds : \A j \in 1..Len(b[k]) : b[k][j].updatedAt.tz # "naive"}

EmptyTables == [k \in Kinds |-> <<>>]

\* a row: its owner, its payload, the server's updatedAt.  clientAt is a history
\* field: the updatedAt sent with the record whose payload the row holds
RowOf(u, rec, clk) ==
    [userId |-> u, data |-> rec.data, updatedAt |-> clk, clientAt |-> rec.updatedAt]

----------------------------------------------------------------------------
(* Levels and experience points: services/leveling_service.py.  A user's    *)
(* xp and level are the columns added to the users table by migration 007, *)
(* with the defaults 0 and 'Iron'.                                         *)

LEVELS == <<"Iron", "Bronze", "Silver", "Gold", "Platinum", "Diamond">>

XP_THRESHOLDS(level) ==
    CASE level = "Iron" -> 100
      [] level = "Bronze" -> 300
      [] level = "Silver" -> 700
      [] level = "Gold" -> 1500
      [] level = "Platinum" -> 3000
      [] level = "Diamond" -> 999999999

NewUser == [xp |-> 0, level |-> "Iron"]

\* LEVELS.index(level); an unknown level counts as the first
LevelIndex(level) ==
    IF \E i \in 1..Len(LEVELS) : LEVELS[i] = level
    THEN CHOOSE i \in 1..Len(LEVELS) : LEVELS[i] = level
    ELSE 1

\* the for loop of gain_xp, entered at level i: the index of the level reached
RECURSIVE LevelUpFrom(_, _)
LevelUpFrom(i, xp) ==
    IF i < Len(LEVELS) /\ xp >= XP_THRESHOLDS(LEVELS[i])
    THEN LevelUpFrom(i + 1, xp)
    ELSE i

\* a level-up that stops after the first threshold passed
gain_xpOneLevel(user, amount) ==
    LET xp == user.xp + amount
        idx == LevelIndex(user.level)
    IN [xp |-> xp,
        level |-> IF idx < Len(LEVELS) /\ xp >= XP_THRESHOLDS(LEVELS[idx])
                  THEN LEVELS[idx + 1]
                  ELSE LEVELS[idx]]

\* gain_xp: the amount is added, then the level moves up while the xp has
\* reached the threshold of the level held
gain_xp(user, amount) ==
    LET xp == user.xp + amount
        idx == LevelIndex(user.level)
        reached == LevelUpFrom(idx, xp)
    IN [xp |-> xp,
        level |-> IF reached > idx THEN LEVELS[reached] ELSE LEVELS[idx]]

\* the loop of calculate_level_from_xp over all levels, at level i with cur held
RECURSIVE ScanLevels(_, _, _)
ScanLevels(i, xp, cur) ==
    IF i > Len(LEVELS) THEN cur
    ELSE IF xp >= XP_THRESHOLDS(LEVELS[i])
         THEN ScanLevels(i + 1, xp, IF i + 1 <= Len(LEVELS) THEN LEVELS[i + 1] ELSE LEVELS[i])
         ELSE cur

calculate_level_from_xp(xp) ==
    IF xp < 0 THEN "Iron" ELSE ScanLevels(1, xp, "Iron")

\* user = db.query(User).filter(User.id == user_id).first(); gain_xp(db, user, amount)
Reward(us, u, amount) == [us EXCEPT ![u] = gain_xp(@, amount)]

----------------------------------------------------------------------------
(* The per-record upsert: upsert_task, upsert_expense, upsert_journal,      *)
(* upsert_reflection, upsert_goal, upsert_calendar_note                    *)

CreationXp(k) ==
    CASE k = "task" -> 2
      [] k = "expense" -> 3
      [] k = "journal" -> 15
      [] k = "reflection" -> 20
      [] k = "goal" -> 25
      [] k = "calendar_note" -> 5

CompletionXp(k, row, rec) ==
    IF k = "task" /\ rec.data.status = "done" /\ row.data.status # "done" THEN 10 ELSE 0

\* an update that keeps the updatedAt the client sent
ApplyUpdateClientStamp(k, row, rec, clk) ==
    [userId |-> IF "userId" \in CopiedKeys(k) THEN rec.userId ELSE row.userId,
     data |-> IF PayloadColumn(k) \in CopiedKeys(k) THEN rec.data ELSE row.data,
     updatedAt |-> rec.updatedAt.t,
     clientAt |-> rec.updatedAt]

\* an update that writes the time but leaves the stored payload
ApplyUpdateKeepsPayload(k, row, rec, clk) ==
    [userId |-> IF "userId" \in CopiedKeys(k) THEN rec.userId ELSE row.userId,
     data |-> row.data,
     updatedAt |-> clk,
     clientAt |-> rec.updatedAt]

\* the setattr loop followed by existing.updatedAt = datetime.now(timezone.utc)
ApplyUpdate(k, row, rec, clk) ==
    [userId |-> IF "userId" \in CopiedKeys(k) THEN rec.userId ELSE row.userId,
     data |-> IF PayloadColumn(k) \in CopiedKeys(k) THEN rec.data ELSE row.data,
     updatedAt |-> clk,
     clientAt |-> rec.updatedAt]

\* an insert that trusts the owner the record declares
InsertRowDeclaredOwner(k, rec, u, clk) == RowOf(rec.userId, rec, clk)

\* data["userId"] = user_id, the row is built from data, then updatedAt = now
InsertRow(k, rec, u, clk) == RowOf(u, rec, clk)

\* an upsert whose lookup is by id alone
UpsertAnyOwner(k, rec, u, tbl, clk) ==
    LET id == rec.id
        keep(o, x) == [outcome |-> o, table |-> tbl, xp |-> x]
    IN IF id \in DOMAIN tbl
       THEN IF rec.updatedAt # NoStamp
            THEN IF rec.updatedAt.tz = "naive"
                 THEN keep("Error", 0)
                 ELSE IF rec.updatedAt.t > tbl[id].updatedAt
                      THEN [outcome |-> "Updated",
                            table |-> [tbl EXCEPT ![id] = ApplyUpdate(k, tbl[id], rec, clk)],
                            xp |-> CompletionXp(k, tbl[id], rec)]
                      ELSE keep("ConflictKept", 0)
            ELSE [outcome |-> "Updated",
                  table |-> [tbl EXCEPT ![id] = ApplyUpdate(k, tbl[id], rec, clk)],
                  xp |-> 0]
       ELSE IF ~ConstructorAccepts(k)
            THEN keep("Error", 0)
            ELSE [outcome |-> "Created",
                  table |-> [j \in DOMAIN tbl \cup {id} |->
                               IF j = id THEN InsertRow(k, rec, u, clk) ELSE tbl[j]],
                  xp |-> CreationXp(k)]

\* an upsert that deletes the caller's row when the record is marked deleted
UpsertHardDelete(k, rec, u, tbl, clk) ==
    LET id == rec.id
        ownedByCaller == id \in DOMAIN tbl /\ tbl[id].userId = u
        keep(o, x) == [outcome |-> o, table |-> tbl, xp |-> x]
    IN IF ownedByCaller /\ rec.data.deletedAt # 0
       THEN [outcome |-> "Updated", table |-> [j \in DOMAIN tbl \ {id} |-> tbl[j]], xp |-> 0]
       ELSE
       IF ownedByCaller
       THEN IF rec.updatedAt # NoStamp
            THEN IF rec.updatedAt.tz = "naive"
                 THEN keep("Error", 0)
                 ELSE IF rec.updatedAt.t > tbl[id].updatedAt
                      THEN [outcome |-> "Updated",
                            table |-> [tbl EXCEPT ![id] = ApplyUpdate(k, tbl[id], rec, clk)],
                            xp |-> CompletionXp(k, tbl[id], rec)]
                      ELSE keep("ConflictKept", 0)
            ELSE [outcome |-> "Updated",
                  table |-> [tbl EXCEPT ![id] = ApplyUpdate(k, tbl[id], rec, clk)],
                  xp |-> 0]
       ELSE IF id \in DOMAIN tbl
            THEN keep("Forbidden", 0)
            ELSE IF ~ConstructorAccepts(k)
                 THEN keep("Error", 0)
                 ELSE [outcome |-> "Created",
                       table |-> [j \in DOMAIN tbl \cup {id} |->
                                    IF j = id THEN InsertRow(k, rec, u, clk) ELSE tbl[j]],
                       xp |-> CreationXp(k)]

\* an upsert that stamps the row it keeps with the time of the request
UpsertKeptTouches(k, rec, u, tbl, clk) ==
    LET id == rec.id
        ownedByCaller == id \in DOMAIN tbl /\ tbl[id].userId = u
        keep(o, x) == [outcome |-> o, table |-> tbl, xp |-> x]
    IN IF ownedByCaller
       THEN IF rec.updatedAt # NoStamp
            THEN IF rec.updatedAt.tz = "naive"
                 THEN keep("Error", 0)
                 ELSE IF rec.updatedAt.t > tbl[id].updatedAt
                      THEN [outcome |-> "Updated",
                            table |-> [tbl EXCEPT ![id] = ApplyUpdate(k, tbl[id], rec, clk)],
                            xp |-> CompletionXp(k, tbl[id], rec)]
                      ELSE [outcome |-> "ConflictKept",
                            table |-> [tbl EXCEPT ![id].updatedAt = clk],
                            xp |-> 0]
            ELSE [outcome |-> "Updated",
                  table |-> [tbl EXCEPT ![id] = ApplyUpdate(k, tbl[id], rec, clk)],
                  xp |-> 0]
       ELSE IF id \in DOMAIN tbl
            THEN keep("Forbidden", 0)
            ELSE IF ~ConstructorAccepts(k)
                 THEN keep("Error", 0)
                 ELSE [outcome |-> "Created",
                       table |-> [j \in DOMAIN tbl \cup {id} |->
                                    IF j = id THEN InsertRow(k, rec, u, clk) ELSE tbl[j]],
                       xp |-> CreationXp(k)]

\* an upsert whose update without a comparison is rewarded like an insert
UpsertRewardsUpdate(k, rec, u, tbl, clk) ==
    LET id == rec.id
        ownedByCaller == id \in DOMAIN tbl /\ tbl[id].userId = u
        keep(o, x) == [outcome |-> o, table |-> tbl, xp |-> x]
    IN IF ownedByCaller
       THEN IF rec.updatedAt # NoStamp
            THEN IF rec.updatedAt.tz = "naive"
                 THEN keep("Error", 0)
                 ELSE IF rec.updatedAt.t > tbl[id].updatedAt
                      THEN [outcome |-> "Updated",
                            table |-> [tbl EXCEPT ![id] = ApplyUpdate(k, tbl[id], rec, clk)],
                            xp |-> CompletionXp(k, tbl[id], rec)]
                      ELSE keep("ConflictKept", 0)
            ELSE [outcome |-> "Updated",
                  table |-> [tbl EXCEPT ![id] = ApplyUpdate(k, tbl[id], rec, clk)],
                  xp |-> CreationXp(k)]
       ELSE IF id \in DOMAIN tbl
            THEN keep("Forbidden", 0)
            ELSE IF ~ConstructorAccepts(k)
                 THEN keep("Error", 0)
                 ELSE [outcome |-> "Created",
                       table |-> [j \in DOMAIN tbl \cup {id} |->
                                    IF j = id THEN InsertRow(k, rec, u, clk) ELSE tbl[j]],
                       xp |-> CreationXp(k)]

\* upsert_task and its five siblings: the caller's row is updated or kept, a
\* row of another owner is refused, an absent id is inserted
Upsert(k, rec, u, tbl, clk) ==
    LET id == rec.id
        ownedByCaller == id \in DOMAIN tbl /\ tbl[id].userId = u
        keep(o, x) == [outcome |-> o, table |-> tbl, xp |-> x]
    IN IF ownedByCaller
       THEN IF rec.updatedAt # NoStamp
            THEN IF rec.updatedAt.tz = "naive"
                 THEN keep("Error", 0)
                 ELSE IF rec.updatedAt.t > tbl[id].updatedAt
                      THEN [outcome |-> "Updated",
                            table |-> [tbl EXCEPT ![id] = ApplyUpdate(k, tbl[id], rec, clk)],
                            xp |-> CompletionXp(k, tbl[id], rec)]
                      ELSE keep("ConflictKept", 0)
            ELSE [outcome |-> "Updated",
                  table |-> [tbl EXCEPT ![id] = ApplyUpdate(k, tbl[id], rec, clk)],
                  xp |-> 0]
       ELSE IF id \in DOMAIN tbl
            THEN keep("Forbidden", 0)
            ELSE IF ~ConstructorAccepts(k)
                 THEN keep("Error", 0)
                 ELSE [outcome |-> "Created",
                       table |-> [j \in DOMAIN tbl \cup {id} |->
                                    IF j = id THEN InsertRow(k, rec, u, clk) ELSE tbl[j]],
                       xp |-> CreationXp(k)]

----------------------------------------------------------------------------
(* The request in progress and the last export *)

NoCounts == [k \in Kinds |-> 0]

IdleReq ==
    [pc |-> "idle", caller |-> "", batch |-> EmptyTables, todo |-> <<>>, i |-> 1,
     synced |-> NoCounts, conflicts |-> 0, outcomes |-> <<>>, status |-> 0,
     pre |-> EmptyTables]

\* the errors a read can raise for a table in a partial schema state, as the
\* except blocks of download_data tell them apart by their message
StorageErrors == {"no such column", "no such table"}

NoFault == [kind |-> "", err |-> ""]

Faults == [kind : Kinds, err : StorageErrors]

\* status is the response code of the export, raised the read that failed
NoDownload == [caller |-> "", status |-> 0, raised |-> NoFault, data |-> [k \in Kinds |-> {}]]

\* a query without the owner filter
AllRows(tbl, u) ==
    {[id |-> id, userId |-> tbl[id].userId, data |-> tbl[id].data,
      updatedAt |-> tbl[id].updatedAt] : id \in DOMAIN tbl}

\* db.query(Model).filter(Model.userId == current_user.id).all()
OwnedRows(tbl, u) ==
    {[id |-> id, userId |-> tbl[id].userId, data |-> tbl[id].data,
      updatedAt |-> tbl[id].updatedAt] : id \in {j \in DOMAIN tbl : tbl[j].userId = u}}

\* two requests served at the same time, each in its own session: Procs names
\* them, txn.of holds what each has read and decided, txn.commits the order in
\* which their writes were committed
Procs == {1, 2}

NoRow ==
    [userId |-> "", data |-> [title |-> "", status |-> "", deletedAt |-> 0],
     updatedAt |-> 0, clientAt |-> NoStamp]

NoRec == [id |-> 0, userId |-> "", data |-> NoRow.data, updatedAt |-> NoStamp]

IdleTxn ==
    [pc |-> "idle", caller |-> "", kind |-> "", rec |-> NoRec, seen |-> NoRow,
     outcome |-> "", status |-> 0]

NoTxns == [of |-> [p \in Procs |-> IdleTxn], commits |-> <<>>]

Init ==
    /\ store = EmptyTables
    /\ now = 1
    /\ req = IdleReq
    /\ downloaded = NoDownload
    /\ calls = 0
    /\ txn = NoTxns
    /\ users = [u \in Users |-> NewUser]

\* a size check that leaves the reflections out
TotalItemsWithoutReflections(b) ==
    Len(b["task"]) + Len(b["expense"]) + Len(b["journal"]) + Len(b["goal"])
      + Len(b["calendar_note"])

\* a size check that counts the sleep and mood lists too
TotalItemsWithSleepMood(b) ==
    Len(b["task"]) + Len(b["expense"]) + Len(b["journal"]) + Len(b["goal"])
      + Len(b["calendar_note"]) + Len(b["reflection"])
      + (IF "sleep" \in DOMAIN b THEN Len(b["sleep"]) ELSE 0)
      + (IF "mood" \in DOMAIN b THEN Len(b["mood"]) ELSE 0)

\* total_items of sync_data
TotalItems(b) ==
    Len(b["task"]) + Len(b["expense"]) + Len(b["journal"]) + Len(b["goal"])
      + Len(b["calendar_note"]) + Len(b["reflection"])

\* the pre-scan of sync_data: only the task list is scanned
DeclaresOtherOwner(b, u) ==
    \E j \in 1..Len(b["task"]) : b["task"][j].userId # "" /\ b["task"][j].userId # u

Finished(r, code) == [r EXCEPT !.pc = "done", !.status = code]

\* sync_data up to the first upsert: the counters, the size check, the pre-scan
SyncBegin(u, b) ==
    /\ req.pc # "run"
    /\ LET r == [IdleReq EXCEPT !.caller = u, !.batch = b, !.todo = Flatten(b),
                                !.pre = store]
       IN req' = IF TotalItems(b) > MaxItems THEN Finished(r, 400)
                 ELSE IF DeclaresOtherOwner(b, u) THEN Finished(r, 403)
                 ELSE [r EXCEPT !.pc = "run"]
    /\ calls' = calls + 1
    /\ downloaded' = NoDownload
    /\ UNCHANGED <<store, now, txn, users>>

\* a counter that takes every processed record for a conflict
ConflictsResolvedAlways(n, outcome) == n + 1

\* if upsert_x(db, x_dict, current_user.id): conflicts_resolved += 1
ConflictsResolved(n, outcome) == IF outcome = "ConflictKept" THEN n + 1 ELSE n

\* an iteration whose ownership check looks the id up in every table
UpsertStepSharedIds ==
    /\ req.pc = "run"
    /\ req.i <= Len(req.todo)
    /\ LET it == req.todo[req.i]
           taken == \E k \in Kinds : /\ it.rec.id \in DOMAIN store[k]
                                     /\ store[k][it.rec.id].userId # req.caller
           res == IF taken
                  THEN [outcome |-> "Forbidden", table |-> store[it.kind], xp |-> 0]
                  ELSE Upsert(it.kind, it.rec, req.caller, store[it.kind], now)
           logged == [req EXCEPT !.outcomes = Append(@, [outcome |-> res.outcome,
                                                         xp |-> res.xp, at |-> now])]
       IN /\ store' = [store EXCEPT ![it.kind] = res.table]
          /\ req' = CASE res.outcome = "Forbidden" -> Finished(logged, 403)
                      [] res.outcome = "Error" -> Finished(logged, 500)
                      [] OTHER ->
                           [logged EXCEPT
                              !.i = @ + 1,
                              !.synced[it.kind] = @ + 1,
                              !.conflicts = ConflictsResolved(@, res.outcome)]
          /\ users' = IF res.xp > 0 THEN Reward(users, req.caller, res.xp) ELSE users
    /\ UNCHANGED <<now, downloaded, calls, txn>>

\* one iteration of one of the six loops of sync_data
UpsertStep ==
    /\ req.pc = "run"
    /\ req.i <= Len(req.todo)
    /\ LET it == req.todo[req.i]
           res == Upsert(it.kind, it.rec, req.caller, store[it.kind], now)
           logged == [req EXCEPT !.outcomes = Append(@, [outcome |-> res.outcome,
                                                         xp |-> res.xp, at |-> now])]
       IN /\ store' = [store EXCEPT ![it.kind] = res.table]
          /\ req' = CASE res.outcome = "Forbidden" -> Finished(logged, 403)
                      [] res.outcome = "Error" -> Finished(logged, 500)
                      [] OTHER ->
                           [logged EXCEPT
                              !.i = @ + 1,
                              !.synced[it.kind] = @ + 1,
                              !.conflicts = ConflictsResolved(@, res.outcome)]
          /\ users' = IF res.xp > 0 THEN Reward(users, req.caller, res.xp) ELSE users
    /\ UNCHANGED <<now, downloaded, calls, txn>>

\* a storage error that leaves every commit of the request undone
UpsertFaultRollsBack ==
    /\ req.pc = "run"
    /\ req.i <= Len(req.todo)
    /\ store' = req.pre
    /\ req' = Finished([req EXCEPT !.outcomes = Append(@, [outcome |-> "StorageError",
                                                           xp |-> 0, at |-> now])], 500)
    /\ UNCHANGED <<now, downloaded, calls, txn, users>>

\* the lookup or the commit of the current record raises a storage error:
\* except Exception, db.rollback() of the uncommitted record, status 500
UpsertFault ==
    /\ req.pc = "run"
    /\ req.i <= Len(req.todo)
    /\ store' = store
    /\ req' = Finished([req EXCEPT !.outcomes = Append(@, [outcome |-> "StorageError",
                                                           xp |-> 0, at |-> now])], 500)
    /\ UNCHANGED <<now, downloaded, calls, txn, users>>

\* the SyncResponse returned after the last loop
SyncEnd ==
    /\ req.pc = "run"
    /\ req.i > Len(req.todo)
    /\ req' = Finished(req, 200)
    /\ UNCHANGED <<store, now, downloaded, calls, txn, users>>

\* the test of the except block around the query of kind k: is the error
\* swallowed and the kind returned empty
DegradesToEmpty(k, err) ==
    \/ err = "no such column"
    \/ err = "no such table" /\ k \in {"goal", "calendar_note"}

\* the six guarded queries of download_data and its response, when the read
\* named by fault raises (none does for NoFault)
Fetch(u, fault) ==
    IF fault # NoFault /\ ~DegradesToEmpty(fault.kind, fault.err)
    THEN [caller |-> u, status |-> 500, raised |-> fault, data |-> [k \in Kinds |-> {}]]
    ELSE [caller |-> u, status |-> 200, raised |-> fault,
          data |-> [k \in Kinds |-> IF k = fault.kind THEN {} ELSE OwnedRows(store[k], u)]]

\* an export that stamps the rows it returns with the time of the read
DownloadStamping(u) ==
    /\ req.pc # "run"
    /\ downloaded' = Fetch(u, NoFault)
    /\ store' = [k \in Kinds |->
                   [id \in DOMAIN store[k] |->
                      IF store[k][id].userId = u
                      THEN [store[k][id] EXCEPT !.updatedAt = now]
                      ELSE store[k][id]]]
    /\ UNCHANGED <<now, req, calls, txn, users>>

\* download_data
Download(u) ==
    /\ req.pc # "run"
    /\ downloaded' = Fetch(u, NoFault)
    /\ UNCHANGED <<store, now, req, calls, txn, users>>

\* download_data over a table in a partial schema state
DownloadDegraded ==
    /\ req.pc # "run"
    /\ \E u \in Users, fault \in Faults : downloaded' = Fetch(u, fault)
    /\ UNCHANGED <<store, now, req, calls, txn, users>>

\* the server clock read by datetime.now(timezone.utc)
Tick ==
    /\ now < MaxClock
    /\ now' = now + 1
    /\ UNCHANGED <<store, req, downloaded, calls, txn, users>>

\* a request of one record, at most MaxCalls of them
SyncSingle ==
    /\ calls < MaxCalls
    /\ req.pc # "run"
    /\ \E u \in Users, b \in SingleBatches : SyncBegin(u, b)

DownloadAny == \E u \in Users : Download(u)

Next ==
    \/ SyncSingle
    \/ UpsertStep
    \/ SyncEnd
    \/ DownloadAny
    \/ Tick

Spec == Init /\ [][Next]_vars

\* a first request of one record, then one request of up to MaxBatch records
SyncSeed ==
    /\ calls = 0
    /\ \E b \in SeedBatches : SyncBegin(SeedCaller, b)

SyncBatch ==
    /\ calls = 1
    /\ req.pc # "run"
    /\ \E u \in Users, b \in Batches : SyncBegin(u, b)

NextBatch ==
    \/ SyncSeed
    \/ SyncBatch
    \/ UpsertStep
    \/ SyncEnd
    \/ DownloadAny
    \/ Tick

SpecBatch == Init /\ [][NextBatch]_vars

\* the requests of SpecBatch over a store whose writes can fail
NextFault ==
    \/ SyncSeed
    \/ SyncBatch
    \/ UpsertStep
    \/ UpsertFault
    \/ SyncEnd
    \/ DownloadAny
    \/ Tick

SpecFault == Init /\ [][NextFault]_vars

\* a request of one record with a zoned updatedAt of 1, at most MaxCalls of them
SyncStamped ==
    /\ calls < MaxCalls
    /\ req.pc # "run"
    /\ \E u \in Users, b \in SeedBatches : SyncBegin(u, b)

\* one-record requests over tables whose reads can fail
NextDegraded ==
    \/ SyncStamped
    \/ UpsertStep
    \/ SyncEnd
    \/ DownloadAny
    \/ DownloadDegraded
    \/ Tick

SpecDegraded == Init /\ [][NextDegraded]_vars

\* requests whose size is at and just above the cap: n records, of
\* which m are of kind k and the others are tasks
CapRecord(k, u) ==
    [id |-> 1, userId |-> u, data |-> CHOOSE d \in Payloads(k) : d.title = "p",
     updatedAt |-> [t |-> 1, tz |-> "utc"]]

CapBatch(u, n, k, m) ==
    [kk \in Kinds |->
       CASE kk = k -> [j \in 1..m |-> CapRecord(kk, u)]
         [] kk = "task" /\ k # "task" -> [j \in 1..(n - m) |-> CapRecord(kk, u)]
         [] OTHER -> <<>>]

CapBatches(u) ==
    {CapBatch(u, n, k, m) : n \in MaxItems..(MaxItems + 1),
                            k \in {"journal", "reflection"}, m \in {1, MaxItems \div 2}}

SyncCap ==
    /\ calls = 0
    /\ \E u \in Users : \E b \in CapBatches(u) : SyncBegin(u, b)

\* the clock stands still here: the size check does not read it
NextCap ==
    \/ SyncCap
    \/ UpsertStep
    \/ SyncEnd
    \/ DownloadAny

SpecCap == Init /\ [][NextCap]_vars

\* the SyncResponse built at the end of sync_data: the six counters and the
\* conflicts are passed, synced_sleep and synced_mood keep their default
Response(r) ==
    [synced_tasks |-> r.synced["task"],
     synced_expenses |-> r.synced["expense"],
     synced_journals |-> r.synced["journal"],
     synced_sleep |-> 0,
     synced_mood |-> 0,
     synced_goals |-> r.synced["goal"],
     synced_calendar_notes |-> r.synced["calendar_note"],
     synced_reflections |-> r.synced["reflection"],
     conflicts_resolved |-> r.conflicts]

\* a SyncData body with its sleep and mood lists filled: n and m records
WithSleepMood(b, n, m) ==
    [k \in Kinds \cup {"sleep", "mood"} |->
       CASE k = "sleep" -> [j \in 1..n |-> [id |-> j]]
         [] k = "mood" -> [j \in 1..m |-> [id |-> j]]
         [] OTHER -> b[k]]

\* the requests of SpecCap, each with up to MaxIgnored sleep and mood records
SyncIgnored ==
    /\ calls = 0
    /\ \E u \in Users : \E b \in CapBatches(u) : \E n, m \in 0..MaxIgnored :
         SyncBegin(u, WithSleepMood(b, n, m))

NextIgnored ==
    \/ SyncIgnored
    \/ UpsertStep
    \/ SyncEnd
    \/ DownloadAny

SpecIgnored == Init /\ [][NextIgnored]_vars

----------------------------------------------------------------------------
(* Two requests at the same time.  Each upsert is a lookup of the caller's  *)
(* row, a lookup by id alone, and a commit; another request's steps can     *)
(* fall between them.                                                       *)

\* the records of the racing requests: they declare their caller, and the
\* client's clock may be ahead of the server's
RaceStamps == {NoStamp} \cup [t : 1..(MaxClock + 1), tz : {"utc"}]

RaceRecords(k, u) ==
    [id : Ids, userId : {u}, data : Payloads(k),
     updatedAt : IF UpdatedAtRequired(k) THEN RaceStamps \ {NoStamp} ELSE RaceStamps]

\* an INSERT into a table without a key: the later row replaces the earlier
InsertCommitNoKey(tbl, id, row) ==
    [ok |-> TRUE, table |-> [j \in DOMAIN tbl \cup {id} |-> IF j = id THEN row ELSE tbl[j]]]

\* db.add(new_x); db.commit() under id = Column(String, primary_key=True):
\* the INSERT of an id the table holds raises IntegrityError
InsertCommit(tbl, id, row) ==
    IF id \in DOMAIN tbl
    THEN [ok |-> FALSE, table |-> tbl]
    ELSE [ok |-> TRUE, table |-> [j \in DOMAIN tbl \cup {id} |-> IF j = id THEN row ELSE tbl[j]]]

\* a write that is given up when the row is no longer the one that was read
FlushUpdateIfUnchanged(k, cur, seen, rec, clk) ==
    IF cur # seen
    THEN cur
    ELSE ApplyUpdate(k, cur, rec, clk)

\* the setattr loop and db.commit() on a row loaded earlier as seen: the
\* session's UPDATE sets the columns whose new value differs from the loaded
\* one, and updatedAt; cur is the row the UPDATE meets
FlushUpdate(k, cur, seen, rec, clk) ==
    [userId |-> IF "userId" \in CopiedKeys(k) /\ rec.userId # seen.userId
                THEN rec.userId ELSE cur.userId,
     data |-> [f \in DOMAIN cur.data |->
                 IF PayloadColumn(k) \in CopiedKeys(k) /\ rec.data[f] # seen.data[f]
                 THEN rec.data[f] ELSE cur.data[f]],
     updatedAt |-> clk,
     clientAt |-> rec.updatedAt]

Ended(t, o, code) == [t EXCEPT !.pc = "done", !.outcome = o, !.status = code]

\* a request of one record arrives; the second is on the kind of the first,
\* and on the one kind that has rows if any has.  Request 2 is the one that
\* arrives second
RaceBegin(p) ==
    /\ req.pc # "run"
    /\ txn.of[p].pc = "idle"
    /\ p = 1 \/ txn.of[1].pc # "idle"
    /\ \E u \in Users, k \in Kinds :
         /\ \A kk \in Kinds \ {k} : DOMAIN store[kk] = {}
         /\ \A q \in Procs : txn.of[q].pc # "idle" => txn.of[q].kind = k
         /\ \E rec \in RaceRecords(k, u) :
              txn' = [txn EXCEPT !.of[p] = [IdleTxn EXCEPT !.pc = "query", !.caller = u,
                                                          !.kind = k, !.rec = rec]]
    /\ calls' = calls + 1
    /\ UNCHANGED <<store, now, req, downloaded, users>>

\* the query for the caller's row and, if there is one, the comparison
RaceQuery(p) ==
    /\ txn.of[p].pc = "query"
    /\ LET t == txn.of[p]
           tbl == store[t.kind]
           id == t.rec.id
       IN txn' = [txn EXCEPT !.of[p] =
                    IF id \in DOMAIN tbl /\ tbl[id].userId = t.caller
                    THEN IF t.rec.updatedAt # NoStamp
                            /\ ~(t.rec.updatedAt.t > tbl[id].updatedAt)
                         THEN Ended([t EXCEPT !.seen = tbl[id]], "ConflictKept", 200)
                         ELSE [t EXCEPT !.pc = "apply", !.seen = tbl[id]]
                    ELSE [t EXCEPT !.pc = "check"]]
    /\ UNCHANGED <<store, now, req, downloaded, calls, users>>

\* the query by id alone, and the construction of the new row
RaceCheck(p) ==
    /\ txn.of[p].pc = "check"
    /\ LET t == txn.of[p]
       IN txn' = [txn EXCEPT !.of[p] =
                    IF t.rec.id \in DOMAIN store[t.kind] THEN Ended(t, "Forbidden", 403)
                    ELSE IF ~ConstructorAccepts(t.kind) THEN Ended(t, "Error", 500)
                    ELSE [t EXCEPT !.pc = "insert"]]
    /\ UNCHANGED <<store, now, req, downloaded, calls, users>>

\* db.add(new_x); db.commit(), and the reward of the creation
RaceInsert(p) ==
    /\ txn.of[p].pc = "insert"
    /\ LET t == txn.of[p]
           res == InsertCommit(store[t.kind], t.rec.id, InsertRow(t.kind, t.rec, t.caller, now))
       IN /\ store' = [store EXCEPT ![t.kind] = res.table]
          /\ txn' = IF res.ok
                    THEN [of |-> [txn.of EXCEPT ![p] = Ended(t, "Created", 200)],
                          commits |-> Append(txn.commits, p)]
                    ELSE [txn EXCEPT !.of[p] = Ended(t, "IntegrityError", 500)]
          /\ users' = IF res.ok THEN Reward(users, t.caller, CreationXp(t.kind)) ELSE users
    /\ UNCHANGED <<now, req, downloaded, calls>>

\* the setattr loop, existing.updatedAt = now, db.commit(), and the reward of
\* a completion on the path that compared the timestamps
RaceApply(p) ==
    /\ txn.of[p].pc = "apply"
    /\ LET t == txn.of[p]
       IN /\ store' = [store EXCEPT ![t.kind][t.rec.id] =
                         FlushUpdate(t.kind, @, t.seen, t.rec, now)]
          /\ txn' = [of |-> [txn.of EXCEPT ![p] = Ended(t, "Updated", 200)],
                     commits |-> Append(txn.commits, p)]
          /\ users' = IF t.rec.updatedAt # NoStamp /\ CompletionXp(t.kind, t.seen, t.rec) > 0
                      THEN Reward(users, t.caller, CompletionXp(t.kind, t.seen, t.rec))
                      ELSE users
    /\ UNCHANGED <<now, req, downloaded, calls>>

\* at most one earlier request, then two requests at the same time
NextRace ==
    \/ SyncSeed
    \/ UpsertStep
    \/ SyncEnd
    \/ Tick
    \/ \E p \in Procs : RaceBegin(p)
    \/ \E p \in Procs : RaceQuery(p)
    \/ \E p \in Procs : RaceCheck(p)
    \/ \E p \in Procs : RaceInsert(p)
    \/ \E p \in Procs : RaceApply(p)

SpecRace == Init /\ [][NextRace]_vars

----------------------------------------------------------------------------
(* The account of one user under a sequence of rewards *)

\* the amounts the upserts and the chat room pass to gain_xp, and two amounts
\* that pass more than one threshold at once
XpAmounts == {2, 3, 5, 10, 15, 20, 25} \cup {300, 3000}

\* one call of gain_xp for the user, while the xp stays within MaxXp
GainXp ==
    /\ \E amount \in XpAmounts :
         /\ users[SeedCaller].xp + amount <= MaxXp
         /\ users' = Reward(users, SeedCaller, amount)
    /\ UNCHANGED <<store, now, req, downloaded, calls, txn>>

NextXp == GainXp

SpecXp == Init /\ [][NextXp]_vars

----------------------------------------------------------------------------
(* Properties *)

Running == req.pc = "run" /\ req.i <= Len(req.todo)

\* the step taken is an upsert: the request moved on
UpsertTaken == Running /\ req' # req

Current == req.todo[req.i]

LastOutcome == req.outcomes[Len(req.outcomes)].outcome

HasRow(k, id) == id \in DOMAIN store[k]

\* C1: once a row exists its owner never changes, whatever is synced
C1_OwnerNeverChanges ==
    [][\A k \in Kinds : \A id \in DOMAIN store[k] :
         /\ id \in DOMAIN store'[k]
         /\ store'[k][id].userId = store[k][id].userId]_vars

\* C2: an upsert of an id that exists in its kind under another owner fails with
\* 403 and leaves every table as it was
C2_ForeignIdForbidden ==
    [][(/\ UpsertTaken
        /\ HasRow(Current.kind, Current.rec.id)
        /\ store[Current.kind][Current.rec.id].userId # req.caller)
       => (/\ req'.pc = "done"
           /\ req'.status = 403
           /\ store' = store)]_vars

C2_Witness ==
    /\ req.pc = "done"
    /\ req.status = 403
    /\ Len(req.outcomes) = 1
    /\ LastOutcome = "Forbidden"
    /\ \E k \in Kinds : \E id \in DOMAIN store[k] :
         /\ store[k][id].userId # req.caller
         /\ req.todo[1].kind = k
         /\ req.todo[1].rec.id = id
         /\ req.todo[1].rec.data # store[k][id].data

Zoned(st) == st.tz = "utc"

\* C3: of two submissions of an id by its owner, the one with the later client
\* timestamp ends up stored, in whichever order they arrive
C3_LaterClientStampWins ==
    [][(/\ UpsertTaken
        /\ HasRow(Current.kind, Current.rec.id)
        /\ store[Current.kind][Current.rec.id].userId = req.caller
        /\ Current.rec.userId = req.caller
        /\ Zoned(Current.rec.updatedAt)
        /\ Zoned(store[Current.kind][Current.rec.id].clientAt))
       => LET row == store[Current.kind][Current.rec.id]
              row2 == store'[Current.kind][Current.rec.id]
          IN /\ Current.rec.updatedAt.t > row.clientAt.t => row2.data = Current.rec.data
             /\ Current.rec.updatedAt.t < row.clientAt.t => row2.data = row.data]_vars

\* C4: a record submitted again by its owner, unchanged and with the same
\* updatedAt, is ConflictKept and leaves the stored row as it was
C4_ResubmissionIsConflictKept ==
    [][(/\ UpsertTaken
        /\ HasRow(Current.kind, Current.rec.id)
        /\ store[Current.kind][Current.rec.id].userId = req.caller
        /\ Current.rec.userId = req.caller
        /\ Zoned(Current.rec.updatedAt)
        /\ store[Current.kind][Current.rec.id].clientAt = Current.rec.updatedAt
        /\ store[Current.kind][Current.rec.id].data = Current.rec.data)
       => (/\ Len(req'.outcomes) = Len(req.outcomes) + 1
           /\ req'.outcomes[Len(req'.outcomes)].outcome = "ConflictKept"
           /\ store' = store)]_vars

\* C5: a row's updatedAt never decreases, and every Created or Updated outcome
\* sets it to the server's time of the write
C5_UpdatedAtMonotonic ==
    [][/\ \A k \in Kinds : \A id \in DOMAIN store[k] :
            /\ id \in DOMAIN store'[k]
            /\ store'[k][id].updatedAt >= store[k][id].updatedAt
       /\ (UpsertTaken /\ req'.outcomes[Len(req'.outcomes)].outcome \in {"Created", "Updated"})
            => store'[Current.kind][Current.rec.id].updatedAt = now]_vars

C5_Witness ==
    /\ req.pc = "done"
    /\ req.status = 200
    /\ Len(req.outcomes) = 1
    /\ LastOutcome = "Updated"
    /\ store[req.todo[1].kind][req.todo[1].rec.id].updatedAt = MaxClock
    /\ req.todo[1].rec.updatedAt = NoStamp

\* C6: a request of at most MaxItems records passes the size check; a larger one
\* ends with 400 before any upsert, so that no table changes and no record of
\* it is in a later export
C6_CapacityCheck ==
    /\ req.pc = "run" => Len(req.todo) <= MaxItems
    /\ (req.pc = "done" /\ Len(req.todo) <= MaxItems) => req.status # 400
    /\ (req.pc = "done" /\ Len(req.todo) > MaxItems) =>
         /\ req.status = 400
         /\ req.outcomes = <<>>
         /\ store = req.pre
         /\ downloaded.caller # "" =>
              \A k \in Kinds : \A r \in downloaded.data[k] :
                 /\ r.id \in DOMAIN req.pre[k]
                 /\ \A j \in 1..Len(req.batch[k]) : req.batch[k][j].id # r.id

C6_Witness ==
    /\ req.pc = "done"
    /\ req.status = 400
    /\ Len(req.todo) = MaxItems + 1
    /\ req.batch["reflection"] # <<>>
    /\ downloaded.caller = req.caller

\* C7: if any record of any kind of a request declares an owner other than the
\* caller, the request ends with 403 before any upsert
C7_DeclaredOwnerChecked ==
    (/\ req.pc \in {"run", "done"}
     /\ \E j \in 1..Len(req.todo) : req.todo[j].rec.userId # req.caller)
    => (req.pc = "done" /\ req.status = 403 /\ req.outcomes = <<>>)

\* C8: a request that ends with 403 has written nothing
C8_ForbiddenWritesNothing ==
    (req.pc = "done" /\ req.status = 403) => store = req.pre

\* C9: an export holds, for each kind, exactly the stored rows the caller owns
C9_ExportIsOwnersRows ==
    downloaded.caller # "" =>
      \A k \in Kinds :
         /\ \A id \in DOMAIN store[k] :
              store[k][id].userId = downloaded.caller =>
                \E r \in downloaded.data[k] :
                   r.id = id /\ r.data = store[k][id].data
                             /\ r.updatedAt = store[k][id].updatedAt
         /\ \A r \in downloaded.data[k] :
              /\ r.userId = downloaded.caller
              /\ r.id \in DOMAIN store[k]
              /\ store[k][r.id].userId = downloaded.caller
              /\ store[k][r.id].data = r.data

C9_Witness ==
    /\ downloaded.caller = "A"
    /\ \E k \in Kinds : downloaded.data[k] # {}
    /\ \E k \in Kinds : \E id \in DOMAIN store[k] : store[k][id].userId = "B"

CreatedAt(j) == req.outcomes[j].outcome = "Created"

Exported(j) ==
    \E r \in downloaded.data[req.todo[j].kind] :
       r.id = req.todo[j].rec.id /\ r.data = req.todo[j].rec.data

ExportFollowsSync ==
    req.pc = "done" /\ req.status = 200 /\ downloaded.caller = req.caller

OnlyOfItsKey(j) ==
    \A i \in 1..Len(req.todo) :
       (req.todo[i].kind = req.todo[j].kind /\ req.todo[i].rec.id = req.todo[j].rec.id)
         => i = j

OwnRow == HasRow(Current.kind, Current.rec.id)
            /\ store[Current.kind][Current.rec.id].userId = req.caller

NewOutcome == req'.outcomes[Len(req'.outcomes)].outcome

\* C11: for a row of the caller and a record that carries an updatedAt, the
\* outcome is Updated if and only if the record's updatedAt is strictly later
\* than the stored one, and ConflictKept otherwise, ties included
C11_StrictlyLaterApplies ==
    [][(UpsertTaken /\ OwnRow /\ Current.rec.updatedAt # NoStamp)
       => IF Current.rec.updatedAt.t > store[Current.kind][Current.rec.id].updatedAt
          THEN NewOutcome = "Updated"
          ELSE NewOutcome = "ConflictKept"]_vars

C13_AbsentIdIsCreated ==
    [][(UpsertTaken /\ ~HasRow(Current.kind, Current.rec.id))
       => (/\ NewOutcome = "Created"
           /\ req'.pc = "run"
           /\ DOMAIN store'[Current.kind] = DOMAIN store[Current.kind] \cup {Current.rec.id}
           /\ store'[Current.kind][Current.rec.id].userId = req.caller
           /\ store'[Current.kind][Current.rec.id].updatedAt = now)]_vars

OutcomesOf(k, outs) ==
    {j \in 1..Len(req.outcomes) : req.todo[j].kind = k /\ req.outcomes[j].outcome \in outs}

\* C14: in a successful response each per-kind count is the number of the
\* kind's records that were Created or Updated; ConflictKept is not counted
C14_CountsCreatedAndUpdated ==
    (req.pc = "done" /\ req.status = 200)
    => \A k \in Kinds : req.synced[k] = Cardinality(OutcomesOf(k, {"Created", "Updated"}))

\* C15: in a successful response conflicts_resolved is the number of records,
\* over all kinds, that were ConflictKept, and no request ends in a failure
\* on a ConflictKept record
C15_ConflictsCounted ==
    /\ (req.pc = "done" /\ req.status = 200)
         => req.conflicts = Cardinality(UNION {OutcomesOf(k, {"ConflictKept"}) : k \in Kinds})
    /\ (req.pc = "done" /\ req.status # 200 /\ req.outcomes # <<>>)
         => LastOutcome # "ConflictKept"

C15_Witness ==
    /\ req.pc = "done"
    /\ req.status = 200
    /\ Len(req.outcomes) = 2
    /\ req.outcomes[1].outcome = "ConflictKept"
    /\ req.outcomes[2].outcome = "Created"
    /\ req.todo[1].kind # req.todo[2].kind
    /\ req.conflicts = 1

\* C16: when the read of one kind raises a missing-column or missing-table
\* error, the export succeeds, that kind is empty and every other kind holds
\* the caller's rows
C16_ExportDegrades ==
    (downloaded.caller # "" /\ downloaded.raised # NoFault)
    => (/\ downloaded.status = 200
        /\ \A k \in Kinds :
             downloaded.data[k] = IF k = downloaded.raised.kind THEN {}
                                  ELSE OwnedRows(store[k], downloaded.caller))

\* the tables after the first n records of todo, upserted for caller u at the
\* times the request processed them
RECURSIVE Replay(_, _, _, _, _)
Replay(tbls, todo, outs, n, u) ==
    IF n = 0 THEN tbls
    ELSE LET before == Replay(tbls, todo, outs, n - 1, u)
             it == todo[n]
         IN [before EXCEPT ![it.kind] =
               Upsert(it.kind, it.rec, u, before[it.kind], outs[n].at).table]

StorageFailed == req.pc = "done" /\ req.outcomes # <<>> /\ LastOutcome = "StorageError"

\* C19: when the k-th record fails with a storage error the request ends with
\* 500, no later record is processed, and the tables are those reached by
\* processing the k-1 records before it
C19_PrefixStaysCommitted ==
    StorageFailed
    => (/\ req.status = 500
        /\ req.i = Len(req.outcomes)
        /\ store = Replay(req.pre, req.todo, req.outcomes, req.i - 1, req.caller))

C19_Witness ==
    /\ StorageFailed
    /\ Len(req.outcomes) = 2
    /\ req.outcomes[1].outcome \in {"Created", "Updated"}
    /\ req.pre # EmptyTables
    /\ store # req.pre

Undeleted(x) == [x EXCEPT !.data.deletedAt = 0]

\* C20: no step removes a row from any table, whether the request succeeds
\* or fails; a record marked deleted is stored as a row that carries the mark,
\* and the mark, on the record or on the stored row, does not change how the
\* record is resolved
C20_NoRowRemoved ==
    [][/\ \A k \in Kinds : DOMAIN store[k] \subseteq DOMAIN store'[k]
       /\ (UpsertTaken /\ NewOutcome # "StorageError")
            => LET k == Current.kind
                   id == Current.rec.id
                   unmarked == [j \in DOMAIN store[k] |-> Undeleted(store[k][j])]
               IN /\ NewOutcome \in {"Created", "Updated"}
                       => store'[k][id].data.deletedAt = Current.rec.data.deletedAt
                  /\ NewOutcome
                       = Upsert(k, Undeleted(Current.rec), req.caller, unmarked, now).outcome]_vars

C20_Witness ==
    /\ req.pc = "done"
    /\ req.status = 200
    /\ req.outcomes # <<>>
    /\ LastOutcome = "Updated"
    /\ LET k == req.todo[Len(req.todo)].kind
           id == req.todo[Len(req.todo)].rec.id
       IN /\ id \in DOMAIN req.pre[k]
          /\ req.pre[k][id].data.deletedAt = 0
          /\ store[k][id].data.deletedAt = 1
          /\ req.todo[Len(req.todo)].rec.updatedAt # NoStamp

SameKey == txn.of[1].kind = txn.of[2].kind /\ txn.of[1].rec.id = txn.of[2].rec.id

BothTriedInsert ==
    /\ SameKey
    /\ \A p \in Procs : txn.of[p].pc = "done"
                          /\ txn.of[p].outcome \in {"Created", "IntegrityError"}

\* C17: of two requests at the same time that both found an id absent and both
\* tried to insert it, one commits and the other ends in a failure; the row
\* stored has the owner and the payload of the one that committed
C17_DoubleInsertFails ==
    BothTriedInsert
    => \E w \in Procs : \E l \in Procs \ {w} :
          /\ txn.of[w].outcome = "Created" /\ txn.of[w].status = 200
          /\ txn.of[l].outcome = "IntegrityError" /\ txn.of[l].status = 500
          /\ txn.commits = <<w>>
          /\ LET row == store[txn.of[w].kind][txn.of[w].rec.id]
             IN /\ row.userId = txn.of[w].caller
                /\ row.data = txn.of[w].rec.data
                /\ row.clientAt = txn.of[w].rec.updatedAt

C17_Witness ==
    /\ BothTriedInsert
    /\ txn.of[1].caller # txn.of[2].caller
    /\ txn.of[1].rec.data # txn.of[2].rec.data
    /\ txn.commits = <<2>>

\* p commits an update while the other request has read the same stored
\* updatedAt of the same row and has decided to apply too
AppliesInRace(p) ==
    /\ txn.of[p].pc = "apply"
    /\ txn'.of[p].pc = "done"
    /\ SameKey
    /\ \E q \in Procs \ {p} :
         /\ txn.of[q].caller = txn.of[p].caller
         /\ txn.of[q].pc = "apply" \/ txn.of[q].outcome = "Updated"
         /\ txn.of[q].seen.updatedAt = txn.of[p].seen.updatedAt

Gained(u) == users'[u].xp - users[u].xp

\* C21: on a ConflictKept outcome nothing is written: every stored row keeps its
\* payload, its owner and its updatedAt, and no user is given a reward
C21_ConflictKeptWritesNothing ==
    [][UpsertTaken /\ NewOutcome = "ConflictKept"
         => /\ store' = store
            /\ users' = users
            /\ req'.outcomes[Len(req'.outcomes)].xp = 0]_vars

\* a request answered 200 whose record, different from the stored row in its
\* payload, was kept out
C21_Witness ==
    /\ req.pc = "done" /\ req.status = 200
    /\ req.outcomes # <<>>
    /\ LastOutcome = "ConflictKept"
    /\ LET it == req.todo[Len(req.todo)]
       IN /\ it.rec.id \in DOMAIN store[it.kind]
          /\ store[it.kind][it.rec.id].data # it.rec.data
          /\ it.kind = "task" /\ it.rec.data.status = "done"

\* the six lists of a request one after the other: tasks, expenses, journals,
\* goals, calendar notes, reflections, each as it was submitted
SubmissionOrder(b) ==
    LET tag(k) == [j \in 1..Len(b[k]) |-> [kind |-> k, rec |-> b[k][j]]]
    IN tag("task") \o tag("expense") \o tag("journal") \o tag("goal")
         \o tag("calendar_note") \o tag("reflection")

\* C22: the i-th upsert of a request is the upsert of the i-th record of the
\* request's lists taken in the fixed order tasks, expenses, journals, goals,
\* calendar notes, reflections and, within a list, in submission order,
\* whatever the records hold and whatever is stored
C22_FixedOrder ==
    [][UpsertTaken
         => LET it == SubmissionOrder(req.batch)[req.i]
            IN /\ Len(req'.outcomes) = req.i
               /\ store' = [store EXCEPT
                              ![it.kind] = Upsert(it.kind, it.rec, req.caller, @, now).table]
               /\ req'.pc = "run" => req'.i = req.i + 1]_vars

\* a request of two different records of one kind, both processed
C22_Witness ==
    /\ req.pc = "done" /\ req.status = 200
    /\ Len(req.todo) = 2 /\ Len(req.outcomes) = 2
    /\ req.todo[1].kind = req.todo[2].kind
    /\ req.todo[1].rec.id = req.todo[2].rec.id
    /\ req.todo[1].rec.data # req.todo[2].rec.data
    /\ req.outcomes[1].outcome = "Created"
    /\ req.outcomes[2].outcome = "Updated"

\* the id of the current record is stored in another kind under another owner
IdHeldElsewhere ==
    \E k \in Kinds \ {Current.kind} :
       /\ Current.rec.id \in DOMAIN store[k]
       /\ store[k][Current.rec.id].userId # req.caller

\* C23: an upsert of kind K leaves the tables of every other kind as they are,
\* and it is refused as an ownership violation only when K's own table holds
\* the id under another owner; a row with that id in another kind plays no part
C23_KindsAreIndependent ==
    [][UpsertTaken
         => /\ \A k \in Kinds \ {Current.kind} : store'[k] = store[k]
            /\ NewOutcome = "Forbidden"
                 => /\ Current.rec.id \in DOMAIN store[Current.kind]
                    /\ store[Current.kind][Current.rec.id].userId # req.caller
            /\ IdHeldElsewhere /\ Current.rec.id \notin DOMAIN store[Current.kind]
                 => NewOutcome # "Forbidden"]_vars

\* one id stored in two kinds under two owners, the second by the request
\* just answered
C23_Witness ==
    /\ req.pc = "done" /\ req.status = 200
    /\ req.outcomes # <<>>
    /\ LastOutcome = "Created"
    /\ LET it == req.todo[Len(req.todo)]
       IN \E k \in Kinds \ {it.kind} :
            /\ it.rec.id \in DOMAIN store[k]
            /\ it.rec.id \in DOMAIN store[it.kind]
            /\ store[k][it.rec.id].userId # store[it.kind][it.rec.id].userId
            /\ store[it.kind][it.rec.id].userId = req.caller

\* the step is an export: a response of download_data has been produced
ExportTaken == downloaded' # downloaded /\ downloaded'.status # 0

\* C24: an export, answered 200 or 500, leaves every row of every kind and
\* every user's xp and level as they were
C24_ExportWritesNothing ==
    [][ExportTaken => store' = store /\ users' = users]_vars

\* a failed export over a store that holds a rewarded row of the caller
C24_Witness ==
    /\ downloaded.status = 500
    /\ users[downloaded.caller].xp > 0
    /\ \E k \in Kinds : \E id \in DOMAIN store[k] : store[k][id].userId = downloaded.caller

\* the current record moves the caller's stored task into the state done
Completes ==
    /\ Current.kind = "task"
    /\ Current.rec.id \in DOMAIN store["task"]
    /\ store["task"][Current.rec.id].data.status # "done"
    /\ Current.rec.data.status = "done"

\* C25: an upsert that ends Created inserts an id its table did not hold and
\* adds the creation reward of its kind, once, to the caller's xp; an upsert
\* that ends otherwise adds no creation reward (at most the completion reward
\* of a task update); no other user's account moves and no id leaves a table,
\* so a (kind, id) is rewarded as created at most once
C25_CreationRewardedOnce ==
    [][UpsertTaken
         => /\ NewOutcome = "Created"
                 => /\ Current.rec.id \notin DOMAIN store[Current.kind]
                    /\ Gained(req.caller) = CreationXp(Current.kind)
            /\ NewOutcome # "Created"
                 => \/ Gained(req.caller) = 0
                    \/ /\ NewOutcome = "Updated" /\ Completes
                       /\ Gained(req.caller) = 10
            /\ \A u \in Users \ {req.caller} : users'[u] = users[u]
            /\ \A k \in Kinds : DOMAIN store[k] \subseteq DOMAIN store'[k]]_vars

\* a request that created a journal and then updated it: one creation reward
C25_Witness ==
    /\ req.pc = "done" /\ req.status = 200
    /\ req.caller # SeedCaller
    /\ Len(req.outcomes) = 2
    /\ req.outcomes[1].outcome = "Created"
    /\ req.outcomes[2].outcome = "Updated"
    /\ req.todo[1].kind = "journal"
    /\ users[req.caller].xp = CreationXp("journal")

\* C26: an applied update that moves a task's stored status from another value
\* to done adds the completion reward to the owner's xp, once, whether the
\* update was applied after the comparison of the timestamps or without one;
\* an update of a task already done, and a record kept out, add nothing
C26_CompletionRewarded ==
    [][UpsertTaken /\ Current.kind = "task"
         => /\ NewOutcome = "Updated" /\ Completes => Gained(req.caller) = 10
            /\ \/ NewOutcome = "ConflictKept"
               \/ NewOutcome = "Updated" /\ ~Completes
               => Gained(req.caller) = 0]_vars

\* C27: a record whose updatedAt carries no zone, sent for an id the caller
\* owns, is compared as a UTC instant: the upsert ends Updated or
\* ConflictKept, never in an error
C27_NaiveStampIsCompared ==
    [][UpsertTaken /\ OwnRow /\ Current.rec.updatedAt.tz = "naive"
         => NewOutcome \in {"Updated", "ConflictKept"}]_vars

\* the request holds two records of one kind and one id that was not stored
\* when the request arrived
TwiceInBatch ==
    /\ req.pc # "idle"
    /\ Len(req.todo) = 2
    /\ req.todo[1].kind = req.todo[2].kind
    /\ req.todo[1].rec.id = req.todo[2].rec.id
    /\ req.todo[1].rec.id \notin DOMAIN req.pre[req.todo[1].kind]

\* C28: of two records of one kind with one id absent before the call, the
\* first is Created, and the second, when its updatedAt is not later than the
\* time of that write, is ConflictKept and the first record's payload stays
\* stored
C28_SecondMeetsFirst ==
    TwiceInBatch
      => /\ Len(req.outcomes) >= 1 => req.outcomes[1].outcome = "Created"
         /\ /\ Len(req.outcomes) = 2
            /\ req.todo[2].rec.updatedAt # NoStamp
            /\ req.todo[2].rec.updatedAt.t <= req.outcomes[1].at
            => /\ req.outcomes[2].outcome = "ConflictKept"
               /\ store[req.todo[1].kind][req.todo[1].rec.id].data = req.todo[1].rec.data

\* the number of records in the six lists that sync_data loops over
SixLists(b) ==
    Len(b["task"]) + Len(b["expense"]) + Len(b["journal"]) + Len(b["goal"])
      + Len(b["calendar_note"]) + Len(b["reflection"])

CarriesSleepOrMood ==
    /\ req.pc # "idle"
    /\ "sleep" \in DOMAIN req.batch
    /\ Len(req.batch["sleep"]) + Len(req.batch["mood"]) > 0

\* C29: the sleep and mood records of a request are ignored: the request is
\* refused for its size exactly when the six other lists hold more than 1000
\* records, the upserts performed are those of the records of the six lists
\* and no more, and the response reports synced_sleep = 0 and synced_mood = 0
C29_SleepMoodIgnored ==
    CarriesSleepOrMood
      => /\ req.status = 400 <=> SixLists(req.batch) > 1000
         /\ Len(req.todo) = SixLists(req.batch)
         /\ \A j \in 1..Len(req.todo) : req.todo[j].kind \notin {"sleep", "mood"}
         /\ Len(req.outcomes) <= SixLists(req.batch)
         /\ req.status = 200 => Len(req.outcomes) = SixLists(req.batch)
         /\ Response(req).synced_sleep = 0
         /\ Response(req).synced_mood = 0

\* a request of 1000 records and a sleep record, answered 200 with all 1000
\* synced
C29_Witness ==
    /\ CarriesSleepOrMood
    /\ Len(req.batch["sleep"]) >= 1
    /\ SixLists(req.batch) = 1000
    /\ req.pc = "done" /\ req.status = 200
    /\ Len(req.outcomes) = 1000
    /\ Response(req).synced_tasks + Response(req).synced_journals
         + Response(req).synced_reflections = 1000

\* C30: after any sequence of gain_xp calls from xp 0 and level Iron, the
\* stored level is the level calculate_level_from_xp gives for the stored xp,
\* and no call moves the level down
C30_LevelMatchesXp ==
    /\ [](\A u \in Users : users[u].level = calculate_level_from_xp(users[u].xp))
    /\ [][\A u \in Users : LevelIndex(users'[u].level) >= LevelIndex(users[u].level)]_vars

\* the user has been rewarded up to the last level
C30_Witness ==
    /\ users[SeedCaller].level = "Diamond"
    /\ users[SeedCaller].xp >= XP_THRESHOLDS("Platinum")

====
